---- MODULE Spec2Model ----
(***************************************************************************)
(* TV show tracker: the four HTTP handlers of src/infra/api.py, wrapped by *)
(* the decorators of src/utils/decorator.py, over a DynamoDB table keyed   *)
(* by (username, tv_show).                                                 *)
(*                                                                         *)
(* Python strings are sequences of one-character strings, so that int()    *)
(* can be modelled as the parser it is.  JSON values are tagged records.   *)
(***************************************************************************)
EXTENDS Integers, Sequences, FiniteSets, TLC

\* ---------------------------------------------------------------- bounds
MaxRequests == 2       \* requests the two concurrent clients send in all
MaxClock == 2          \* last reading of the wall clock, in clock ticks
TicksPerSecond == 2    \* clock ticks in one second (sub-second resolution)
MaxSeason == 2         \* largest season and episode number a client sends

\* Two request threads, enough for any two requests to overlap.
Workers == {1, 2}

\* ------------------------------------------------------ Python / JSON values
None == [t |-> "null"]
JInt(i) == [t |-> "int", i |-> i]
JBool(b) == [t |-> "bool", b |-> b]
JFloat(num, den) == [t |-> "float", num |-> num, den |-> den]
JInf == [t |-> "inf"]
JStr(s) == [t |-> "str", s |-> s]
\* A JSON object, by what .get() gives for the four keys the handler reads
\* (None for an absent key) and its number of keys; a JSON array by length.
JDict(username, tv_show, season, episode, len) ==
    [t |-> "dict", len |-> len,
     get |-> [username |-> username, tv_show |-> tv_show,
              season |-> season, episode |-> episode]]
JList(len) == [t |-> "list", len |-> len]

\* Python truthiness of a JSON value (bool(x)).
Truthy(v) ==
    CASE v.t = "null" -> FALSE
      [] v.t = "int" -> v.i # 0
      [] v.t = "bool" -> v.b
      [] v.t = "float" -> v.num # 0
      [] v.t = "inf" -> TRUE
      [] v.t = "str" -> Len(v.s) > 0
      [] v.t = "dict" -> v.len > 0
      [] v.t = "list" -> v.len > 0

Digits == <<"0", "1", "2", "3", "4", "5", "6", "7", "8", "9">>
IsDigit(c) == \E d \in 1..10 : Digits[d] = c
DigitVal(c) == (CHOOSE d \in 1..10 : Digits[d] = c) - 1

RECURSIVE LStrip(_)
LStrip(s) == IF s # <<>> /\ Head(s) = " " THEN LStrip(Tail(s)) ELSE s

RECURSIVE RStrip(_)
RStrip(s) ==
    IF s # <<>> /\ s[Len(s)] = " " THEN RStrip(SubSeq(s, 1, Len(s) - 1)) ELSE s

RECURSIVE DigitsVal(_, _)
DigitsVal(s, acc) ==
    IF s = <<>> THEN acc ELSE DigitsVal(Tail(s), 10 * acc + DigitVal(Head(s)))

Returned(v) == [ok |-> TRUE, val |-> v]
Raised(e) == [ok |-> FALSE, exc |-> e]

\* int(s) for a str: surrounding whitespace is stripped, one optional sign,
\* then one or more decimal digits; anything else is a ValueError.
PyIntStr(s) ==
    LET body == RStrip(LStrip(s))
        signed == body # <<>> /\ Head(body) \in {"+", "-"}
        digs == IF signed THEN Tail(body) ELSE body
    IN  IF digs # <<>> /\ \A k \in 1..Len(digs) : IsDigit(digs[k])
        THEN Returned(IF signed /\ Head(body) = "-"
                      THEN 0 - DigitsVal(digs, 0) ELSE DigitsVal(digs, 0))
        ELSE Raised("ValueError")

\* int(x) of Python: a float is truncated toward zero, an infinite float is
\* an OverflowError, None is a TypeError.
PyInt(v) ==
    CASE v.t = "int" -> Returned(v.i)
      [] v.t = "bool" -> Returned(IF v.b THEN 1 ELSE 0)
      [] v.t = "float" -> Returned(IF v.num >= 0 THEN v.num \div v.den
                                   ELSE 0 - ((0 - v.num) \div v.den))
      [] v.t = "inf" -> Raised("OverflowError")
      [] v.t = "str" -> PyIntStr(v.s)
      [] v.t = "null" -> Raised("TypeError")

\* A timestamp format that writes the sub-second field first.
isoformat_subsecond_first(now) ==
    IF now % TicksPerSecond = 0 THEN <<now \div TicksPerSecond>>
    ELSE <<now % TicksPerSecond, now \div TicksPerSecond>>

\* datetime.utcnow().isoformat(): the seconds field, then the sub-second
\* field, which isoformat() omits when it is zero.  Fields are fixed-width,
\* so the strings order as these tuples order lexicographically.
isoformat(now) ==
    IF now % TicksPerSecond = 0 THEN <<now \div TicksPerSecond>>
    ELSE <<now \div TicksPerSecond, now % TicksPerSecond>>

\* a <= b for two strings (Python str comparison), here tuples of fields.
RECURSIVE StrLeq(_, _)
StrLeq(a, b) ==
    IF a = <<>> THEN TRUE
    ELSE IF b = <<>> THEN FALSE
    ELSE IF Head(a) # Head(b) THEN Head(a) < Head(b)
    ELSE StrLeq(Tail(a), Tail(b))

\* ------------------------------------------------------------ the table
\* Names used by the requests of the model.
Users == {<<"a">>, <<"b">>}
Shows == {<<"L">>, <<"O">>}

\* The table's native (hash) order over the keys a scan walks through.
KeySpace == << <<<<"a">>, <<"O">>>>, <<<<"a">>, <<"L">>>> >>

\* The order of the sort key (tv_show) within one partition.
ShowsInOrder == <<<<"L">>, <<"O">>>>
SortRank(tv_show) == CHOOSE i \in 1..Len(ShowsInOrder) : ShowsInOrder[i] = tv_show

\* A scan called without ExclusiveStartKey.
NoKey == <<>>

\* KeySchema: username is the HASH key, tv_show the RANGE key.
KeyOf(item) == <<item.username, item.tv_show>>
Pos(key) == CHOOSE i \in 1..Len(KeySpace) : KeySpace[i] = key

RECURSIVE SeqOfSet(_)
SeqOfSet(S) ==
    IF S = {} THEN <<>>
    ELSE LET x == CHOOSE y \in S : TRUE IN <<x>> \o SeqOfSet(S \ {x})

\* Items of the table stored at key-space positions lo..hi, in scan order.
RECURSIVE ItemsBetween(_, _, _)
ItemsBetween(table, lo, hi) ==
    IF lo > hi THEN <<>>
    ELSE SeqOfSet({it \in table : KeyOf(it) = KeySpace[lo]})
         \o ItemsBetween(table, lo + 1, hi)

\* table.get_item(Key=...): the response has an Item exactly when the key is
\* present.
get_item(table, username, tv_show) ==
    LET found == {it \in table : KeyOf(it) = <<username, tv_show>>}
    IN  IF found = {} THEN [ResponseMetadata |-> "ok"]
        ELSE [ResponseMetadata |-> "ok", Item |-> CHOOSE it \in found : TRUE]

\* A put that updates season and episode of an item already stored and
\* leaves its other attributes as they are.
put_item_update(table, Item) ==
    LET old == {it \in table : KeyOf(it) = KeyOf(Item)}
    IN  IF old = {} THEN table \cup {Item}
        ELSE (table \ old)
             \cup {[it EXCEPT !.season = Item.season,
                              !.episode = Item.episode] : it \in old}

\* table.put_item(Item=...): replaces the whole item stored under the key.
put_item(table, Item) ==
    {it \in table : KeyOf(it) # KeyOf(Item)} \cup {Item}

\* table.query(username = ...): the partition's items in sort-key order.
query(table, username) ==
    LET part == {it \in table : it.username = username}
        Rank(it) == Cardinality({o \in part :
                                    SortRank(o.tv_show) <= SortRank(it.tv_show)})
    IN  [Items |-> [i \in 1..Cardinality(part) |->
                       CHOOSE it \in part : Rank(it) = i]]

\* table.scan(ExclusiveStartKey=...): one page.  The store evaluates the
\* key space after the start key up to position upto; it returns a
\* LastEvaluatedKey unless it has evaluated everything, and may return one
\* even then (more).
scan(table, ExclusiveStartKey, upto, more) ==
    LET from == IF ExclusiveStartKey = NoKey THEN 0
                ELSE Pos(ExclusiveStartKey)
        Items == ItemsBetween(table, from + 1, upto)
    IN  IF more THEN [Items |-> Items, LastEvaluatedKey |-> KeySpace[upto]]
        ELSE [Items |-> Items]

\* The pages the store may answer a scan with: progress past the start key
\* whenever a LastEvaluatedKey is returned, everything evaluated otherwise.
ScanChoices(ExclusiveStartKey) ==
    LET from == IF ExclusiveStartKey = NoKey THEN 0
                ELSE Pos(ExclusiveStartKey)
    IN  {c \in (0..Len(KeySpace)) \X BOOLEAN :
            /\ c[1] >= from
            /\ c[2] => c[1] > from
            /\ ~c[2] => c[1] = Len(KeySpace)}

\* Outcomes of one store call: success, a botocore ClientError, or another
\* exception of the client (for example EndpointConnectionError).
StoreFaults == {"none", "ClientError", "EndpointConnectionError"}

\* ------------------------------------------------------------- handlers
\* What a view function produces: a value (a Response or a (Response,
\* status) tuple) or a raised exception.
Response(json) == [py |-> "Response", json |-> json]
Tuple(json, status) == [py |-> "tuple", json |-> json, status |-> status]
Return(value) == [kind |-> "return", value |-> value]
Raise(exc) == [kind |-> "raise", exc |-> exc]

\* One call of a handler to the table, as it appears in a request's trace.
StoreCall(op, fault) == [event |-> "STORE_CALL", op |-> op, fault |-> fault]

\* A scan that succeeded, with the size of its page and whether the page
\* carried a LastEvaluatedKey.
ScanCall(response) ==
    [event |-> "STORE_CALL", op |-> "scan", fault |-> "none",
     items |-> Len(response.Items),
     marker |-> "LastEvaluatedKey" \in DOMAIN response]

\* A fault answered with its own text in the body.
StoreFaultResult_leaks(fault) ==
    Return(Tuple([error |-> fault], 500))

\* except ClientError / except Exception of the four handlers.
StoreFaultResult(fault) ==
    IF fault = "ClientError"
    THEN Return(Tuple([error |-> "Database error"], 500))
    ELSE Return(Tuple([error |-> "Internal server error"], 500))

\* EntryOf with the values of season and episode exchanged.
EntryOf_swapped(item) ==
    [username |-> item.username, tv_show |-> item.tv_show,
     season |-> item.episode, episode |-> item.season,
     last_updated |-> IF "last_updated" \in DOMAIN item
                      THEN item.last_updated ELSE <<>>]

EntryOf(item) ==
    [username |-> item.username, tv_show |-> item.tv_show,
     season |-> item.season, episode |-> item.episode,
     last_updated |-> IF "last_updated" \in DOMAIN item
                      THEN item.last_updated ELSE <<>>]

ShowOf(item) ==
    [tv_show |-> item.tv_show, season |-> item.season,
     episode |-> item.episode,
     last_updated |-> IF "last_updated" \in DOMAIN item
                      THEN item.last_updated ELSE <<>>]

\* show_episode that stores a first record for a pair it does not find.
show_episode_creates(req, table, fault) ==
    LET username == req.args.username
        tv_show == req.args.tv_show
    IN  IF ~Truthy(username) \/ ~Truthy(tv_show)
        THEN [result |-> Return(Tuple(
                  [error |-> "Username and tv_show are required"], 400)),
              table |-> table, calls |-> <<>>]
        ELSE IF fault # "none"
        THEN [result |-> StoreFaultResult(fault), table |-> table,
              calls |-> <<StoreCall("get_item", fault)>>]
        ELSE LET response == get_item(table, username.s, tv_show.s)
             IN  IF "Item" \in DOMAIN response
                 THEN [result |-> Return(Response(EntryOf(response.Item))),
                       table |-> table,
                       calls |-> <<StoreCall("get_item", fault)>>]
                 ELSE [result |-> Return(Tuple(
                           [message |->
                              "No data found for this user and TV show"],
                           404)),
                       table |-> put_item(table,
                           [username |-> username.s, tv_show |-> tv_show.s,
                            season |-> 1, episode |-> 1,
                            last_updated |-> <<>>]),
                       calls |-> <<StoreCall("get_item", fault)>>]

\* GET /show_episode.  args.get() gives None or a str.
show_episode(req, table, fault) ==
    LET username == req.args.username
        tv_show == req.args.tv_show
    IN  IF ~Truthy(username) \/ ~Truthy(tv_show)
        THEN [result |-> Return(Tuple(
                  [error |-> "Username and tv_show are required"], 400)),
              table |-> table, calls |-> <<>>]
        ELSE IF fault # "none"
        THEN [result |-> StoreFaultResult(fault), table |-> table,
              calls |-> <<StoreCall("get_item", fault)>>]
        ELSE LET response == get_item(table, username.s, tv_show.s)
             IN  IF "Item" \in DOMAIN response
                 THEN [result |-> Return(Response(EntryOf(response.Item))),
                       table |-> table,
                       calls |-> <<StoreCall("get_item", fault)>>]
                 ELSE [result |-> Return(Tuple(
                           [message |->
                              "No data found for this user and TV show"],
                           404)),
                       table |-> table,
                       calls |-> <<StoreCall("get_item", fault)>>]

\* GET /show_user.
show_user(req, table, fault) ==
    LET username == req.args.username
    IN  IF ~Truthy(username)
        THEN [result |-> Return(Tuple(
                  [error |-> "Username is required"], 400)),
              table |-> table, calls |-> <<>>]
        ELSE IF fault # "none"
        THEN [result |-> StoreFaultResult(fault), table |-> table,
              calls |-> <<StoreCall("query", fault)>>]
        ELSE LET response == query(table, username.s)
                 shows == [i \in 1..Len(response.Items) |->
                              ShowOf(response.Items[i])]
             IN  [result |-> Return(Response(
                      [username |-> username.s, shows |-> shows,
                       total_shows |-> Len(shows)])),
                  table |-> table,
                  calls |-> <<StoreCall("query", fault)>>]

\* What request.get_json() does with a request whose content type is not
\* JSON depends on the installed werkzeug, which the repository does not
\* pin: it returns None (before 2.1), raises BadRequest (2.1, 2.2) or
\* raises UnsupportedMediaType (2.3 and later).
NonJsonOutcomes == {"None", "BadRequest", "UnsupportedMediaType"}

\* request.get_json(): raises BadRequest for a body that is not valid
\* JSON; nonjson is the installed behaviour for a non-JSON content type.
get_json(body, nonjson) ==
    CASE body.kind = "json" -> Returned(body.data)
      [] body.kind = "malformed" -> Raised("BadRequest")
      [] body.kind = "nojson" ->
            IF nonjson = "None" THEN Returned(None) ELSE Raised(nonjson)

\* POST /update_episode up to the construction of the Item: either the
\* handler is over (a 400, or a raised exception), or the Item is ready for
\* put_item, stamped with utcnow().
update_episode_validate(req, now, nonjson) ==
    LET parsed == get_json(req.body, nonjson)
    IN  IF ~parsed.ok THEN [over |-> TRUE, result |-> Raise(parsed.exc)]
        ELSE LET data == parsed.val IN
        IF ~Truthy(data)
        THEN [over |-> TRUE,
              result |-> Return(Tuple([error |-> "JSON data is required"],
                                      400))]
        ELSE IF data.t # "dict"
        THEN [over |-> TRUE, result |-> Raise("AttributeError")]
        ELSE LET username == data.get.username
                 tv_show == data.get.tv_show
                 season == data.get.season
                 episode == data.get.episode
             IN
        IF ~(Truthy(username) /\ Truthy(tv_show)
             /\ season # None /\ episode # None)
        THEN [over |-> TRUE,
              result |-> Return(Tuple(
                  [error |->
                     "Username, tv_show, season, and episode are required"],
                  400))]
        ELSE LET s == PyInt(season)
                 e == PyInt(episode)
                 Invalid == Return(Tuple(
                     [error |-> "Season and episode must be valid integers"],
                     400))
             IN
        IF ~s.ok
        THEN [over |-> TRUE,
              result |-> IF s.exc \in {"ValueError", "TypeError"}
                         THEN Invalid ELSE Raise(s.exc)]
        ELSE IF ~e.ok
        THEN [over |-> TRUE,
              result |-> IF e.exc \in {"ValueError", "TypeError"}
                         THEN Invalid ELSE Raise(e.exc)]
        ELSE IF s.val < 1 \/ e.val < 1
        THEN [over |-> TRUE,
              result |-> Return(Tuple(
                  [error |-> "Season and episode must be positive integers"],
                  400))]
        ELSE [over |-> FALSE,
              Item |-> [username |-> username.s, tv_show |-> tv_show.s,
                        season |-> s.val, episode |-> e.val,
                        last_updated |-> isoformat(now)]]

\* POST /update_episode from table.put_item() on.
update_episode_put(Item, table, fault) ==
    IF fault # "none"
    THEN [result |-> StoreFaultResult(fault), table |-> table,
          calls |-> <<StoreCall("put_item", fault)>>]
    ELSE [result |-> Return(Tuple(
              [message |-> "Episode updated successfully",
               username |-> Item.username, tv_show |-> Item.tv_show,
               season |-> Item.season, episode |-> Item.episode], 201)),
          table |-> put_item(table, Item),
          calls |-> <<StoreCall("put_item", fault)>>]

\* show_all_page whose loop keeps the last page only instead of appending.
show_all_page_overwrites(frame, table, upto, more, fault) ==
    IF fault # "none"
    THEN [over |-> TRUE, result |-> StoreFaultResult(fault),
          calls |-> <<StoreCall("scan", fault)>>]
    ELSE LET response == scan(table, frame.ExclusiveStartKey, upto, more)
             entries == [i \in 1..Len(response.Items) |->
                            EntryOf(response.Items[i])]
         IN  IF "LastEvaluatedKey" \in DOMAIN response
             THEN [over |-> FALSE,
                   frame |-> [entries |-> entries,
                              ExclusiveStartKey |->
                                  response.LastEvaluatedKey],
                   calls |-> <<ScanCall(response)>>]
             ELSE [over |-> TRUE,
                   result |-> Return(Response(
                       [entries |-> entries,
                        total_entries |-> Len(entries)])),
                   calls |-> <<ScanCall(response)>>]

\* GET /show_all, one page of the scan loop: the page's items are appended
\* to entries; the loop goes on while the page has a LastEvaluatedKey, and
\* the handler returns the list when it has none.
show_all_page(frame, table, upto, more, fault) ==
    IF fault # "none"
    THEN [over |-> TRUE, result |-> StoreFaultResult(fault),
          calls |-> <<StoreCall("scan", fault)>>]
    ELSE LET response == scan(table, frame.ExclusiveStartKey, upto, more)
             entries == frame.entries
                        \o [i \in 1..Len(response.Items) |->
                               EntryOf(response.Items[i])]
         IN  IF "LastEvaluatedKey" \in DOMAIN response
             THEN [over |-> FALSE,
                   frame |-> [entries |-> entries,
                              ExclusiveStartKey |->
                                  response.LastEvaluatedKey],
                   calls |-> <<ScanCall(response)>>]
             ELSE [over |-> TRUE,
                   result |-> Return(Response(
                       [entries |-> entries,
                        total_entries |-> Len(entries)])),
                   calls |-> <<ScanCall(response)>>]

\* ----------------------------------------------------------- decorators
\* str(n) for a natural number.
RECURSIVE str(_)
str(n) == IF n < 10 THEN <<Digits[n + 1]>>
          ELSE str(n \div 10) \o <<Digits[(n % 10) + 1]>>

\* type(e).__name__ as the error_type argument.
TypeName(exc) == [t |-> "type", name |-> exc]

\* The dimensions and the measurements send_metrics_to_cloudwatch builds.
MetricData(endpoint, method, status_code, duration, success, error_type) ==
    LET dimensions ==
            <<[Name |-> "Endpoint", Value |-> endpoint],
              [Name |-> "Method", Value |-> method],
              [Name |-> "StatusCode", Value |-> str(status_code)]>>
            \o (IF error_type # None
                THEN <<[Name |-> "ErrorType", Value |-> error_type.name]>>
                ELSE <<>>)
    IN  <<[MetricName |-> "RequestCount", Dimensions |-> dimensions,
           Value |-> 1, Unit |-> "Count"],
          [MetricName |-> "ResponseTime", Dimensions |-> dimensions,
           Value |-> duration * 1000, Unit |-> "Milliseconds"]>>
        \o (IF success
            THEN <<[MetricName |-> "SuccessCount", Dimensions |-> dimensions,
                    Value |-> 1, Unit |-> "Count"]>>
            ELSE <<[MetricName |-> "ErrorCount", Dimensions |-> dimensions,
                    Value |-> 1, Unit |-> "Count"]>>)

\* send_metrics_to_cloudwatch without its try/except: the sink's exception
\* leaves the function.
send_metrics_unguarded(endpoint, method, status_code, duration, success, error_type, sinkOK) ==
    [sample |-> [endpoint |-> endpoint, method |-> method,
                 status_code |-> status_code, duration |-> duration,
                 success |-> success, error_type |-> error_type],
     metric_data |-> MetricData(endpoint, method, status_code, duration,
                                success, error_type),
     delivered |-> sinkOK,
     raised |-> ~sinkOK,
     exc |-> "ClientError"]

\* send_metrics_to_cloudwatch: builds the measurements and calls
\* put_metric_data once; sinkOK is whether that call succeeds.  The
\* function's own try/except absorbs the sink's exception (raised = FALSE).
send_metrics_to_cloudwatch(endpoint, method, status_code, duration, success, error_type, sinkOK) ==
    [sample |-> [endpoint |-> endpoint, method |-> method,
                 status_code |-> status_code, duration |-> duration,
                 success |-> success, error_type |-> error_type],
     metric_data |-> MetricData(endpoint, method, status_code, duration,
                                success, error_type),
     delivered |-> sinkOK,
     raised |-> FALSE,
     exc |-> "ClientError"]

\* The status read without looking for a (payload, status) tuple.
StatusOf_default(value) == 200

\* isinstance(result, tuple) ? result[1] : 200
StatusOf(value) == IF value.py = "tuple" THEN value.status ELSE 200

\* g as the metrics decorator reads it: getattr(g, name, default).
GetAttr(gctx, name, default) ==
    IF name \in DOMAIN gctx THEN gctx[name] ELSE default

\* track_metrics' wrapper after func() is over: result is what func
\* returned or raised.  The first send is inside the try block, so an
\* exception leaving it would be handled by the except clause as well.
track_metrics(result, gctx, now, sinkOK) ==
    LET start_time == GetAttr(gctx, "start_time", now)
        endpoint == GetAttr(gctx, "endpoint", "unknown")
        method == GetAttr(gctx, "method", "unknown")
        duration == now - start_time
        Failure(exc) ==
            send_metrics_to_cloudwatch(endpoint, method, 500, duration,
                                       FALSE, TypeName(exc), sinkOK)
    IN  IF result.kind = "return"
        THEN LET sent == send_metrics_to_cloudwatch(
                             endpoint, method, StatusOf(result.value),
                             duration, TRUE, None, sinkOK)
             IN  IF ~sent.raised
                 THEN [result |-> result, sent |-> <<sent>>]
                 ELSE LET again == Failure(sent.exc)
                      IN  [result |-> Raise(IF again.raised THEN again.exc
                                            ELSE sent.exc),
                           sent |-> <<sent, again>>]
        ELSE LET sent == Failure(result.exc)
             IN  [result |-> IF sent.raised THEN Raise(sent.exc) ELSE result,
                  sent |-> <<sent>>]

\* log_api_call's wrapper before func(): fills g and logs the start.
log_api_call_enter(endpoint, method, now) ==
    [g |-> [start_time |-> now, endpoint |-> endpoint, method |-> method],
     log |-> [event |-> "API_CALL_START", endpoint |-> endpoint,
              method |-> method]]

\* log_api_call_exit that answers a failure itself instead of re-raising.
log_api_call_exit_swallows(result, endpoint, method, start_time, now) ==
    IF result.kind = "return"
    THEN [result |-> result,
          log |-> [event |-> "API_CALL_SUCCESS", endpoint |-> endpoint,
                   method |-> method,
                   status_code |-> StatusOf(result.value),
                   duration_ms |-> (now - start_time) * 1000]]
    ELSE [result |-> Return(Tuple([error |-> "Internal server error"], 500)),
          log |-> [event |-> "API_CALL_ERROR", endpoint |-> endpoint,
                   method |-> method, error_type |-> result.exc,
                   duration_ms |-> (now - start_time) * 1000]]

\* log_api_call's wrapper after func() is over: logs the outcome and
\* returns the result, or re-raises.
log_api_call_exit(result, endpoint, method, start_time, now) ==
    IF result.kind = "return"
    THEN [result |-> result,
          log |-> [event |-> "API_CALL_SUCCESS", endpoint |-> endpoint,
                   method |-> method,
                   status_code |-> StatusOf(result.value),
                   duration_ms |-> (now - start_time) * 1000]]
    ELSE [result |-> result,
          log |-> [event |-> "API_CALL_ERROR", endpoint |-> endpoint,
                   method |-> method, error_type |-> result.exc,
                   duration_ms |-> (now - start_time) * 1000]]

\* send_http_metrics is imported by api.py but defined nowhere in the
\* sources; the specification knows two stages only, so it is taken to hand
\* the handler's result through.
send_http_metrics(result) == result

\* The two instrumenting decorators written in the other order.
ChainOrder_swapped == <<"track_metrics", "log_api_call", "send_http_metrics">>

\* The decorators of every route, outermost first.
ChainOrder == <<"log_api_call", "track_metrics", "send_http_metrics">>

\* werkzeug exceptions that are HTTP responses of their own.
HTTPExceptions == {"BadRequest", "UnsupportedMediaType"}
HTTPCode(exc) == IF exc = "BadRequest" THEN 400 ELSE 415

\* What Flask sends for the outcome of the decorated view: the returned
\* response; an HTTPException as its own (HTML) error page, no handler for
\* 400/415 being registered; any other exception through the blueprint's
\* errorhandler(500), or, in debug mode, through the debugger's page.
http_layer(result, debug) ==
    IF result.kind = "return"
    THEN [status |-> StatusOf(result.value), body |-> result.value.json]
    ELSE IF result.exc \in HTTPExceptions
    THEN [status |-> HTTPCode(result.exc), body |-> [html |-> "error page"]]
    ELSE IF debug
    THEN [status |-> 500, body |-> [html |-> "traceback"]]
    ELSE [status |-> 500, body |-> [error |-> "Internal server error"]]

\* ------------------------------------------------------------- requests
GetRequest(endpoint, username, tv_show) ==
    [endpoint |-> endpoint, method |-> "GET",
     args |-> [username |-> username, tv_show |-> tv_show],
     body |-> [kind |-> "nojson"]]

PostRequest(body) ==
    [endpoint |-> "api.update_episode", method |-> "POST",
     args |-> [username |-> None, tv_show |-> None], body |-> body]

Json(data) == [kind |-> "json", data |-> data]

\* Well-formed requests, as the simulator sends them.
ValidRequests ==
    {GetRequest("api.show_episode", JStr(u), JStr(s)) :
        u \in Users, s \in Shows}
    \cup {GetRequest("api.show_user", JStr(u), None) : u \in Users}
    \cup {GetRequest("api.show_all", None, None)}
    \cup {PostRequest(Json(JDict(JStr(KeySpace[k][1]), JStr(KeySpace[k][2]),
                                 JInt(se), JInt(ep), 4))) :
            k \in 1..Len(KeySpace), se \in 1..MaxSeason,
            ep \in 1..MaxSeason}

\* Values a client may send for season and episode.
NumberInputs ==
    {None, JInt(0), JInt(1), JInt(-1), JFloat(5, 2), JFloat(1, 2),
     JBool(TRUE), JStr(<<"2">>), JStr(<<"a", "b", "c">>),
     JStr(<<"2", ".", "5">>), JStr(<<" ", "2", " ">>),
     JStr(<<"-", "1">>), JStr(<<>>)}

\* Requests with absent, empty or malformed inputs.
OddRequests ==
    {GetRequest("api.show_episode", u, s) :
        u \in {None, JStr(<<>>), JStr(<<"a">>)},
        s \in {None, JStr(<<>>), JStr(<<"L">>)}}
    \cup {GetRequest("api.show_user", u, None) : u \in {None, JStr(<<>>)}}
    \cup {GetRequest("api.show_all", None, None)}
    \cup {PostRequest(b) :
            b \in {[kind |-> "nojson"], [kind |-> "malformed"], Json(None),
                   Json(JDict(None, None, None, None, 0)), Json(JList(0)),
                   Json(JList(1)), Json(JStr(<<"x">>))}}
    \cup {PostRequest(Json(JDict(u, s, JInt(1), JInt(1), 4))) :
            u \in {None, JStr(<<>>), JStr(<<"a">>)},
            s \in {None, JStr(<<>>), JStr(<<"L">>)}}
    \cup {PostRequest(Json(JDict(JStr(<<"a">>), JStr(<<"L">>), se, ep, 4))) :
            se \in NumberInputs, ep \in {JInt(1)}}
    \cup {PostRequest(Json(JDict(JStr(<<"a">>), JStr(<<"L">>), se, ep, 4))) :
            se \in {JInt(1)}, ep \in NumberInputs}

\* ------------------------------------------------------------------ state
VARIABLES
    store,      \* the table: a set of items
    clock,      \* the wall clock (time.time(), datetime.utcnow())
    pc,         \* per worker: where its request is
    request,    \* per worker: the request being served
    g,          \* per worker: flask.g, the request context
    frame,      \* per worker: the handler's local variables
    result,     \* per worker: what the innermost finished stage produced
    depth,      \* per worker: the decorator whose wrapper resumes next
    events,     \* per worker: logs, store calls and metric calls, in order
    handled,    \* per worker: what the view function itself produced
    response,   \* per worker: the HTTP response sent
    posted,     \* requests the two concurrent clients have sent
    lastPut     \* per key position: the Item of the last update_episode
                \* that returned 201 and the season and episode its
                \* request asked for

vars == <<store, clock, pc, request, g, frame, result, depth,
          events, handled, response, posted, lastPut>>

NoRequest == GetRequest("none", None, None)
NoFrame == [entries |-> <<>>, ExclusiveStartKey |-> NoKey]
NoResult == [kind |-> "none"]
NoResponse == [status |-> 0, body |-> [none |-> TRUE]]
NoPut == [written |-> FALSE]

Init ==
    /\ store = {}
    /\ posted = 0
    /\ clock = 0
    /\ pc = [r \in Workers |-> "idle"]
    /\ request = [r \in Workers |-> NoRequest]
    /\ g = [r \in Workers |-> <<>>]
    /\ frame = [r \in Workers |-> NoFrame]
    /\ result = [r \in Workers |-> NoResult]
    /\ depth = [r \in Workers |-> 0]
    /\ events = [r \in Workers |-> <<>>]
    /\ handled = [r \in Workers |-> NoResult]
    /\ response = [r \in Workers |-> NoResponse]
    /\ lastPut = [i \in 1..Len(KeySpace) |-> NoPut]

Ev(name) == [event |-> name]

\* The view function is over: its outcome starts back up the decorators.
Finish(r, outcome, trace) ==
    /\ result' = [result EXCEPT ![r] = outcome]
    /\ handled' = [handled EXCEPT ![r] = outcome]
    /\ events' = [events EXCEPT ![r] =
                     @ \o trace
                       \o <<Ev(IF outcome.kind = "return"
                               THEN "HANDLER_RETURN" ELSE "HANDLER_RAISE")>>]
    /\ depth' = [depth EXCEPT ![r] = Len(ChainOrder)]
    /\ pc' = [pc EXCEPT ![r] = "exit"]

\* The wall clock advances.
Tick ==
    /\ clock < MaxClock
    /\ clock' = clock + 1
    /\ UNCHANGED <<posted, store, pc, request, g, frame, result, depth,
                   events, handled, response, lastPut>>

\* A request arrives at a free worker and runs down the decorators to the
\* view function: log_api_call fills g and logs the start; the other two
\* wrappers only call on.
Receive(r, req) ==
    /\ pc[r] = "idle"
    /\ LET enter == log_api_call_enter(req.endpoint, req.method, clock)
       IN  /\ g' = [g EXCEPT ![r] = enter.g]
           /\ events' = [events EXCEPT ![r] =
                            <<enter.log, Ev("HANDLER_CALL")>>]
    /\ request' = [request EXCEPT ![r] = req]
    /\ pc' = [pc EXCEPT ![r] = "handler"]
    /\ UNCHANGED <<store, clock, frame, result, handled, response, depth,
                   lastPut>>

ShowEpisode(r) ==
    /\ pc[r] = "handler"
    /\ request[r].endpoint = "api.show_episode"
    /\ \E fault \in StoreFaults :
         LET out == show_episode(request[r], store, fault)
         IN  /\ store' = out.table
             /\ Finish(r, out.result, out.calls)
    /\ UNCHANGED <<posted, clock, request, g, frame, response, lastPut>>

ShowUser(r) ==
    /\ pc[r] = "handler"
    /\ request[r].endpoint = "api.show_user"
    /\ \E fault \in StoreFaults :
         LET out == show_user(request[r], store, fault)
         IN  /\ store' = out.table
             /\ Finish(r, out.result, out.calls)
    /\ UNCHANGED <<posted, clock, request, g, frame, response, lastPut>>

\* update_episode up to the Item: the handler ends here with a 400 or an
\* exception, or goes on to put_item.
UpdateValidate(r) ==
    /\ pc[r] = "handler"
    /\ request[r].endpoint = "api.update_episode"
    /\ \E nonjson \in NonJsonOutcomes :
         LET v == update_episode_validate(request[r], clock, nonjson)
         IN  IF v.over
             THEN /\ Finish(r, v.result, <<>>)
                  /\ UNCHANGED frame
             ELSE /\ frame' = [frame EXCEPT ![r] = [Item |-> v.Item]]
                  /\ pc' = [pc EXCEPT ![r] = "put"]
                  /\ UNCHANGED <<result, handled, events, depth>>
    /\ UNCHANGED <<posted, store, clock, request, g, response, lastPut>>

UpdatePut(r) ==
    /\ pc[r] = "put"
    /\ \E fault \in StoreFaults :
         LET Item == frame[r].Item
             out == update_episode_put(Item, store, fault)
         IN  /\ store' = out.table
             /\ Finish(r, out.result, out.calls)
             /\ IF out.result = Return(Tuple(out.result.value.json, 201))
                THEN lastPut' = [lastPut EXCEPT ![Pos(KeyOf(Item))] =
                        [written |-> TRUE, Item |-> Item,
                         season |-> request[r].body.data.get.season,
                         episode |-> request[r].body.data.get.episode]]
                ELSE UNCHANGED lastPut
    /\ UNCHANGED <<posted, clock, request, g, frame, response>>

\* One table.scan() of show_all and the loop's test on its response.
ScanPage(r) ==
    /\ pc[r] = "handler"
    /\ request[r].endpoint = "api.show_all"
    /\ \E c \in ScanChoices(frame[r].ExclusiveStartKey),
          fault \in StoreFaults :
         LET out == show_all_page(frame[r], store, c[1], c[2], fault)
         IN  IF out.over
             THEN /\ Finish(r, out.result, out.calls)
                  /\ UNCHANGED frame
             ELSE /\ frame' = [frame EXCEPT ![r] = out.frame]
                  /\ events' = [events EXCEPT ![r] = @ \o out.calls]
                  /\ UNCHANGED <<result, handled, depth, pc>>
    /\ UNCHANGED <<posted, store, clock, request, g, response, lastPut>>

\* A wrapper has resumed and finished: the next one out resumes, or the
\* outermost has finished and Flask has the outcome.
Unwind(r) ==
    /\ depth' = [depth EXCEPT ![r] = @ - 1]
    /\ pc' = [pc EXCEPT ![r] = IF depth[r] = 1 THEN "http" ELSE "exit"]

SendHttpMetricsExit(r) ==
    /\ pc[r] = "exit"
    /\ ChainOrder[depth[r]] = "send_http_metrics"
    /\ result' = [result EXCEPT ![r] = send_http_metrics(@)]
    /\ Unwind(r)
    /\ UNCHANGED <<posted, store, clock, request, g, frame, events, handled,
                   response, lastPut>>

MetricCall(sent) ==
    [event |-> "PUT_METRIC_DATA", sample |-> sent.sample,
     metric_data |-> sent.metric_data, delivered |-> sent.delivered]

TrackMetricsExit(r) ==
    /\ pc[r] = "exit"
    /\ ChainOrder[depth[r]] = "track_metrics"
    /\ \E sinkOK \in BOOLEAN :
         LET out == track_metrics(result[r], g[r], clock, sinkOK)
         IN  /\ result' = [result EXCEPT ![r] = out.result]
             /\ events' = [events EXCEPT ![r] =
                   @ \o [i \in 1..Len(out.sent) |-> MetricCall(out.sent[i])]]
    /\ Unwind(r)
    /\ UNCHANGED <<posted, store, clock, request, g, frame, handled,
                   response, lastPut>>

LogApiCallExit(r) ==
    /\ pc[r] = "exit"
    /\ ChainOrder[depth[r]] = "log_api_call"
    /\ LET out == log_api_call_exit(result[r], request[r].endpoint,
                                    request[r].method, g[r].start_time,
                                    clock)
       IN  /\ result' = [result EXCEPT ![r] = out.result]
           /\ events' = [events EXCEPT ![r] = Append(@, out.log)]
    /\ Unwind(r)
    /\ UNCHANGED <<posted, store, clock, request, g, frame, handled,
                   response, lastPut>>

\* Flask turns the outcome of the decorated view into the HTTP response.
Respond(r) ==
    /\ pc[r] = "http"
    /\ \E debug \in BOOLEAN :
         response' = [response EXCEPT ![r] = http_layer(result[r], debug)]
    /\ pc' = [pc EXCEPT ![r] = "done"]
    /\ UNCHANGED <<posted, store, clock, request, g, frame, result, depth,
                   events, handled, lastPut>>

\* The response is sent: the request context and everything else of the
\* request is gone, and the worker is free again.
Release(r) ==
    /\ pc[r] = "done"
    /\ pc' = [pc EXCEPT ![r] = "idle"]
    /\ request' = [request EXCEPT ![r] = NoRequest]
    /\ g' = [g EXCEPT ![r] = <<>>]
    /\ frame' = [frame EXCEPT ![r] = NoFrame]
    /\ result' = [result EXCEPT ![r] = NoResult]
    /\ handled' = [handled EXCEPT ![r] = NoResult]
    /\ events' = [events EXCEPT ![r] = <<>>]
    /\ response' = [response EXCEPT ![r] = NoResponse]
    /\ UNCHANGED <<posted, store, clock, depth, lastPut>>

Serve(r) ==
    \/ ShowEpisode(r)
    \/ ShowUser(r)
    \/ UpdateValidate(r)
    \/ UpdatePut(r)
    \/ ScanPage(r)
    \/ SendHttpMetricsExit(r)
    \/ TrackMetricsExit(r)
    \/ LogApiCallExit(r)
    \/ Respond(r)
    \/ Release(r)

\* A wrapper that resumes after the view function touches nothing but its
\* own request: a request that has left its view function runs to its
\* response before another step is taken.
Unwinding == \E r \in Workers : pc[r] \in {"exit", "http", "done"}

\* The clock is read when a request arrives (start_time) and when
\* update_episode stamps its Item; a tick anywhere else is seen at the next
\* of these readings, so ticks are taken just before them.  (The wrappers
\* also read it for the durations they report; NextOdd lets the clock
\* tick between any two steps.)
ClockRead ==
    /\ ~Unwinding
    /\ \E r \in Workers :
          \/ pc[r] = "idle"
          \/ pc[r] = "handler" /\ request[r].endpoint = "api.update_episode"

\* One request at a time, well-formed requests.
Next ==
    \/ ClockRead /\ Tick
    \/ \E req \in ValidRequests : Receive(1, req) /\ UNCHANGED posted
    \/ Serve(1)

Spec == Init /\ [][Next]_vars

\* One request at a time, requests with absent, empty or malformed inputs.
NextOdd ==
    \/ Tick
    \/ \E req \in OddRequests : Receive(1, req) /\ UNCHANGED posted
    \/ Serve(1)

SpecOdd == Init /\ [][NextOdd]_vars

\* The requests of two clients that write and read the same keys.
ConcRequests ==
    {GetRequest("api.show_episode", JStr(KeySpace[k][1]),
                JStr(KeySpace[k][2])) : k \in 1..Len(KeySpace)}
    \cup {PostRequest(Json(JDict(JStr(KeySpace[k][1]), JStr(KeySpace[k][2]),
                                 JInt(n), JInt(n), 4))) :
            k \in 1..Len(KeySpace), n \in 1..MaxSeason}

\* Two requests at a time, writing and reading, interleaved at the view
\* functions' steps.
NextConc ==
    \/ ClockRead /\ Tick
    \/ ~Unwinding /\ \E r \in Workers : \E req \in ConcRequests :
                        /\ posted < MaxRequests
                        /\ posted' = posted + 1
                        /\ Receive(r, req)
    \/ ~Unwinding /\ \E r \in Workers :
                        \/ ShowEpisode(r)
                        \/ UpdateValidate(r)
                        \/ UpdatePut(r)
    \/ \E r \in Workers :
          \/ SendHttpMetricsExit(r)
          \/ TrackMetricsExit(r)
          \/ LogApiCallExit(r)
          \/ Respond(r)
          \/ Release(r)

SpecConc == Init /\ [][NextConc]_vars

\* ------------------------------------------------------------ properties
Finished(r) == pc[r] \in {"exit", "http", "done"}

InKeySpace(key) == \E i \in 1..Len(KeySpace) : KeySpace[i] = key
LastPutOf(key) == IF InKeySpace(key) THEN lastPut[Pos(key)] ELSE NoPut

StoreCalls(r) == SelectSeq(events[r], LAMBDA e : e.event = "STORE_CALL")
MetricCalls(r) ==
    SelectSeq(events[r], LAMBDA e : e.event = "PUT_METRIC_DATA")

\* C1: a show_episode served after an update_episode that returned 201 for
\* (username, tv_show, season >= 1, episode >= 1), that update being the
\* last write to the pair, answers 200 with exactly that season and
\* episode and with the last_updated that update stored (the store call
\* itself succeeding); and the last_updated an update stores is not
\* earlier than the time the update was called.
C1_UpsertThenGet ==
    /\ [](\A r \in Workers :
            LET req == request[r]
                put == LastPutOf(<<req.args.username.s, req.args.tv_show.s>>)
            IN  (/\ pc[r] = "done"
                 /\ req.endpoint = "api.show_episode"
                 /\ StoreCalls(r) = <<StoreCall("get_item", "none")>>
                 /\ put.written
                 /\ put.season.t = "int" /\ put.season.i >= 1
                 /\ put.episode.t = "int" /\ put.episode.i >= 1)
                => /\ response[r].status = 200
                   /\ response[r].body.username = req.args.username.s
                   /\ response[r].body.tv_show = req.args.tv_show.s
                   /\ response[r].body.season = put.season.i
                   /\ response[r].body.episode = put.episode.i
                   /\ response[r].body.last_updated
                         = put.Item.last_updated)
    /\ [][\A r \in Workers :
            (/\ pc[r] = "put" /\ pc'[r] = "exit"
             /\ handled'[r].kind = "return"
             /\ handled'[r].value.status = 201)
            => \E it \in store' :
                  /\ it = frame[r].Item
                  /\ StrLeq(isoformat(g[r].start_time),
                            it.last_updated)]_vars

\* A show_episode has answered for a pair updated at a later clock reading
\* than the first.
C1_Witness ==
    \E r \in Workers :
        /\ pc[r] = "done"
        /\ request[r].endpoint = "api.show_episode"
        /\ response[r].status = 200
        /\ response[r].body.season = 2
        /\ response[r].body.episode = 1
        /\ response[r].body.last_updated # isoformat(0)

\* What a client means by "an integer >= 1": a JSON integer, or a value
\* that spells one (a numeric string, the boolean true).
SpellsPositiveInteger(v) ==
    \/ v.t = "int" /\ v.i >= 1
    \/ v.t = "bool" /\ v.b
    \/ /\ v.t = "str"
       /\ \E n \in 1..9 : RStrip(LStrip(v.s)) \in {<<Digits[n + 1]>>,
                                                   <<"+", Digits[n + 1]>>}

\* The requests of C2: every required field is there, and season or
\* episode is not an integer >= 1.
BadNumbers(req) ==
    /\ req.endpoint = "api.update_episode"
    /\ req.body.kind = "json"
    /\ req.body.data.t = "dict"
    /\ req.body.data.get.username.t = "str"
    /\ req.body.data.get.username.s # <<>>
    /\ req.body.data.get.tv_show.t = "str"
    /\ req.body.data.get.tv_show.s # <<>>
    /\ req.body.data.get.season # None
    /\ req.body.data.get.episode # None
    /\ \/ ~SpellsPositiveInteger(req.body.data.get.season)
       \/ ~SpellsPositiveInteger(req.body.data.get.episode)

\* C2: an update_episode whose season or episode is not an integer >= 1
\* (0, -1, "abc", 2.5) returns 400 and calls put_item not at all.
C2_RejectsNonInteger ==
    \A r \in Workers :
        (Finished(r) /\ BadNumbers(request[r]))
        => /\ handled[r].kind = "return"
           /\ handled[r].value.py = "tuple"
           /\ handled[r].value.status = 400
           /\ StoreCalls(r) = <<>>

\* C3: with no concurrent write (one request at a time) and no store
\* fault, show_all answers 200 with every record of the table exactly once
\* and total_entries equal to their number, whatever pages the scan came
\* in, empty pages with a continuation marker included; every page but the
\* last carried a marker and the last carried none.
C3_ShowAllComplete ==
    \A r \in Workers :
        LET calls == StoreCalls(r)
            entries == response[r].body.entries
        IN  (/\ pc[r] = "done"
             /\ request[r].endpoint = "api.show_all"
             /\ \A i \in 1..Len(calls) : calls[i].fault = "none")
            => /\ response[r].status = 200
               /\ \A i, j \in 1..Len(entries) :
                     i # j => entries[i] # entries[j]
               /\ {entries[i] : i \in 1..Len(entries)} =
                     {[username |-> it.username, tv_show |-> it.tv_show,
                       season |-> it.season, episode |-> it.episode,
                       last_updated |-> it.last_updated] : it \in store}
               /\ Len(entries) = Cardinality(store)
               /\ response[r].body.total_entries = Cardinality(store)
               /\ Len(calls) >= 1
               /\ \A i \in 1..Len(calls) :
                     calls[i].op = "scan"
                     /\ (calls[i].marker <=> i < Len(calls))

\* A show_all has answered after three pages, the first of them empty with
\* a continuation marker, the table holding a record.
C3_Witness ==
    \E r \in Workers :
        /\ pc[r] = "done"
        /\ request[r].endpoint = "api.show_all"
        /\ response[r].status = 200
        /\ Len(StoreCalls(r)) = 3
        /\ StoreCalls(r)[1].fault = "none"
        /\ StoreCalls(r)[1].items = 0
        /\ StoreCalls(r)[1].marker
        /\ Len(response[r].body.entries) = 1
        /\ store # {}

\* C4: whether put_metric_data succeeds or raises, what leaves the
\* outermost decorator is what the view function produced, and the HTTP
\* response is the one Flask makes of that: a sink fault neither turns a
\* return into a failure nor replaces a raised failure.
C4_SinkFaultInvisible ==
    \A r \in Workers :
        /\ pc[r] \in {"http", "done"} => result[r] = handled[r]
        /\ pc[r] = "done" =>
              \E debug \in BOOLEAN :
                  response[r] = http_layer(handled[r], debug)

\* An update_episode has answered 201 although the sink refused its metrics.
C4_Witness ==
    \E r \in Workers :
        /\ pc[r] = "done"
        /\ response[r].status = 201
        /\ Len(MetricCalls(r)) = 1
        /\ ~MetricCalls(r)[1].delivered

\* The events of a request other than its store calls, by name.
Trace(r) ==
    LET tr == SelectSeq(events[r], LAMBDA e : e.event # "STORE_CALL")
    IN  [i \in 1..Len(tr) |-> tr[i].event]

\* C5: within a request the events come in this order: the start log, the
\* handler's invocation, its return or raise, the metrics emission, the
\* outcome log; so no emission precedes the start log or the handler's end.
C5_EventOrder ==
    \A r \in Workers :
        LET Order == <<{"API_CALL_START"}, {"HANDLER_CALL"},
                       {"HANDLER_RETURN", "HANDLER_RAISE"},
                       {"PUT_METRIC_DATA"},
                       {"API_CALL_SUCCESS", "API_CALL_ERROR"}>>
        IN  /\ Len(Trace(r)) <= 5
            /\ \A i \in 1..Len(Trace(r)) : Trace(r)[i] \in Order[i]
            /\ pc[r] \in {"http", "done"} => Len(Trace(r)) = 5

\* A request whose handler raised has gone through all five events.
C5_Witness ==
    \E r \in Workers :
        /\ pc[r] = "done"
        /\ Trace(r) = <<"API_CALL_START", "HANDLER_CALL", "HANDLER_RAISE",
                        "PUT_METRIC_DATA", "API_CALL_ERROR">>

\* C6: when the view function raises, track_metrics emits a failure
\* sample, log_api_call logs API_CALL_ERROR, and what leaves the outermost
\* decorator is that same exception, not a response.
C6_FailureReraised ==
    \A r \in Workers :
        (pc[r] \in {"http", "done"} /\ handled[r].kind = "raise")
        => /\ \E i \in 1..Len(MetricCalls(r)) :
                 /\ ~MetricCalls(r)[i].sample.success
                 /\ MetricCalls(r)[i].sample.error_type.name = handled[r].exc
           /\ \E i \in 1..Len(events[r]) :
                 /\ events[r][i].event = "API_CALL_ERROR"
                 /\ events[r][i].error_type = handled[r].exc
           /\ result[r].kind = "raise"
           /\ result[r].exc = handled[r].exc

\* update_episode has raised AttributeError on a JSON array and the chain
\* has handed it to Flask.
C6_Witness ==
    \E r \in Workers :
        /\ pc[r] = "http"
        /\ handled[r] = Raise("AttributeError")
        /\ request[r].endpoint = "api.update_episode"

\* C10: the Metric Sample is: on a normal return, success with the status
\* of the result (the tuple's second element, 200 without a tuple) and no
\* error kind; on a raise, failure with status 500 and the exception's
\* type name.  The measurements hold SuccessCount exactly on success and
\* ErrorCount exactly on failure.
C10_MetricSample ==
    \A r \in Workers :
        /\ pc[r] \in {"http", "done"} => Len(MetricCalls(r)) >= 1
        /\ \A i \in 1..Len(MetricCalls(r)) :
              LET call == MetricCalls(r)[i]
                  names == {call.metric_data[k].MetricName :
                               k \in 1..Len(call.metric_data)}
              IN  /\ IF handled[r].kind = "return"
                     THEN /\ call.sample.success
                          /\ call.sample.status_code =
                                IF handled[r].value.py = "tuple"
                                THEN handled[r].value.status ELSE 200
                          /\ call.sample.error_type = None
                     ELSE /\ ~call.sample.success
                          /\ call.sample.status_code = 500
                          /\ call.sample.error_type =
                                [t |-> "type", name |-> handled[r].exc]
                  /\ "SuccessCount" \in names <=> call.sample.success
                  /\ "ErrorCount" \in names <=> ~call.sample.success
                  /\ "RequestCount" \in names

\* A failure sample has been emitted for a BadRequest raised by
\* get_json().
C10_Witness ==
    \E r \in Workers :
        /\ handled[r] = Raise("BadRequest")
        /\ Len(MetricCalls(r)) = 1
        /\ MetricCalls(r)[1].sample.status_code = 500
        /\ ~MetricCalls(r)[1].sample.success

KeysOf(table) == {<<it.username, it.tv_show>> : it \in table}

\* C7: a show_episode for a pair without a record answers 404 with a
\* message body (the store call succeeding) and leaves the table as it
\* was: no record for the pair, no other record touched.
C7_MissLeavesStore ==
    [][\A r \in Workers :
          (/\ pc[r] = "handler" /\ pc'[r] = "exit"
           /\ request[r].endpoint = "api.show_episode"
           /\ <<request[r].args.username.s, request[r].args.tv_show.s>>
                 \notin KeysOf(store))
          => /\ store' = store
             /\ \/ \E i \in 1..Len(events'[r]) :
                      /\ events'[r][i].event = "STORE_CALL"
                      /\ events'[r][i].fault # "none"
                \/ /\ handled'[r].kind = "return"
                   /\ handled'[r].value.py = "tuple"
                   /\ handled'[r].value.status = 404
                   /\ DOMAIN handled'[r].value.json = {"message"}]_vars

\* show_episode has just answered 404 for a pair while the table holds
\* records of other pairs.
C7_Witness ==
    \E r \in Workers :
        /\ pc[r] = "exit"
        /\ request[r].endpoint = "api.show_episode"
        /\ handled[r].kind = "return"
        /\ handled[r].value.py = "tuple"
        /\ handled[r].value.status = 404
        /\ Cardinality(store) = 2

\* The update request of worker r asks for what the last successful
\* update of the same pair asked for.
Repeats(r) ==
    LET data == request[r].body.data.get
        prev == LastPutOf(<<data.username.s, data.tv_show.s>>)
    IN  /\ request[r].endpoint = "api.update_episode"
        /\ prev.written
        /\ prev.season = data.season
        /\ prev.episode = data.episode

\* C8: a successful update_episode that repeats the previous one for its
\* pair leaves the table as it was but for that record's last_updated:
\* same keys, same username, tv_show, season and episode, and a
\* last_updated not smaller than before.
C8_RepeatIdempotent ==
    [][\A r \in Workers :
          (/\ pc[r] = "put" /\ pc'[r] = "exit"
           /\ handled'[r].kind = "return"
           /\ handled'[r].value.status = 201
           /\ Repeats(r))
          => \E old \in store, new \in store' :
                /\ old.username = frame[r].Item.username
                /\ old.tv_show = frame[r].Item.tv_show
                /\ store' \ {new} = store \ {old}
                /\ KeysOf(store') = KeysOf(store)
                /\ Cardinality(store') = Cardinality(store)
                /\ new.username = old.username
                /\ new.tv_show = old.tv_show
                /\ new.season = old.season
                /\ new.episode = old.episode
                /\ StrLeq(old.last_updated, new.last_updated)]_vars

\* A repetition of the last update of a pair is about to put its Item,
\* stamped later than the record in the table.
C8_Witness ==
    \E r \in Workers :
        /\ pc[r] = "put"
        /\ Repeats(r)
        /\ \E old \in store :
              /\ KeysOf({old}) = KeysOf({frame[r].Item})
              /\ old.last_updated # frame[r].Item.last_updated
              /\ old.last_updated # <<0>>

\* C9: the table holds at most one record per (username, tv_show), each
\* record is in full the Item of one update_episode request (the last
\* that returned 201 for the pair), and no step removes a pair from the
\* table, under any interleaving of two concurrent requests.
C9_OneWholeRecordPerKey ==
    /\ [](/\ \A a, b \in store :
                (a.username = b.username /\ a.tv_show = b.tv_show) => a = b
          /\ \A it \in store :
                /\ LastPutOf(<<it.username, it.tv_show>>).written
                /\ it = LastPutOf(<<it.username, it.tv_show>>).Item)
    /\ [][KeysOf(store) \subseteq KeysOf(store')]_vars

\* Of two concurrent updates of one pair, one has just put its Item and
\* the other is about to put a different one over it.
C9_Witness ==
    /\ pc[1] = "put" /\ pc[2] = "exit"
    /\ request[2].endpoint = "api.update_episode"
    /\ frame[2].Item \in store
    /\ KeysOf({frame[1].Item}) = KeysOf({frame[2].Item})
    /\ frame[1].Item.season # frame[2].Item.season
    /\ frame[1].Item.last_updated # frame[2].Item.last_updated

\* The store calls of request r that ended in a fault.
FaultedCalls(r) == SelectSeq(StoreCalls(r), LAMBDA e : e.fault # "none")

\* C11: in each handler a fault raised by a store operation (get_item,
\* query, put_item, any page of the scan) ends the handler with a returned
\* (body, 500) whose body is one of two fixed error objects: nothing is
\* raised, the fault's text is not in the body, and show_all hands out no
\* entries.
C11_StoreFaultIs500 ==
    \A r \in Workers :
        (Finished(r) /\ Len(FaultedCalls(r)) > 0)
        => /\ handled[r].kind = "return"
           /\ handled[r].value.py = "tuple"
           /\ handled[r].value.status = 500
           /\ handled[r].value.json \in
                 {[error |-> "Database error"],
                  [error |-> "Internal server error"]}
           /\ pc[r] = "done" =>
                 /\ response[r].status = 500
                 /\ response[r].body = handled[r].value.json

\* show_all has answered 500 for a fault on a page after a first page that
\* held a record.
C11_Witness ==
    \E r \in Workers :
        /\ pc[r] = "done"
        /\ request[r].endpoint = "api.show_all"
        /\ Len(StoreCalls(r)) = 2
        /\ StoreCalls(r)[1].fault = "none"
        /\ StoreCalls(r)[1].items > 0
        /\ StoreCalls(r)[2].fault = "EndpointConnectionError"
        /\ response[r].status = 500

\* An input that is not there: absent (None under args.get / data.get),
\* JSON null, or the empty string.
Lacking(v) == v = None \/ v = JStr(<<>>)

\* The requests of C12: a required input is lacking.  For update_episode:
\* no JSON body at all, a JSON null, or a JSON value in which one of the
\* four fields is lacking (an object without it, or a value that is no
\* object and so has no fields).
LacksInput(req) ==
    \/ /\ req.endpoint = "api.show_episode"
       /\ Lacking(req.args.username) \/ Lacking(req.args.tv_show)
    \/ /\ req.endpoint = "api.show_user"
       /\ Lacking(req.args.username)
    \/ /\ req.endpoint = "api.update_episode"
       /\ \/ req.body.kind = "nojson"
          \/ /\ req.body.kind = "json"
             /\ \/ req.body.data.t # "dict"
                \/ /\ req.body.data.t = "dict"
                   /\ \E f \in {"username", "tv_show", "season", "episode"} :
                         Lacking(req.body.data.get[f])

\* An error body: the handlers' JSON object with an error field, or the
\* error page the framework writes for an HTTP exception.
ErrorBody(body) == DOMAIN body = {"error"} \/ body = [html |-> "error page"]

\* C12: a request that lacks a required input is answered 400 with an
\* error body and without a call to the store.
C12_MissingInputIs400 ==
    \A r \in Workers :
        (pc[r] = "done" /\ LacksInput(request[r]))
        => /\ response[r].status = 400
           /\ ErrorBody(response[r].body)
           /\ StoreCalls(r) = <<>>

\* How many events of request r carry one of the names.
Count(r, names) ==
    Len(SelectSeq(events[r], LAMBDA e : e.event \in names))

\* C13: for every request the view function is invoked once and the
\* metrics emitter is called once (one sample, one put_metric_data call at
\* most), whether the handler returns or raises and whether the sink takes
\* the data or not; a handler that returned is never followed by a
\* failure-flagged sample.
C13_OneCallOneSample ==
    \A r \in Workers :
        /\ pc[r] # "idle" => Count(r, {"HANDLER_CALL"}) = 1
        /\ Count(r, {"HANDLER_RETURN", "HANDLER_RAISE"})
              = (IF Finished(r) THEN 1 ELSE 0)
        /\ Len(MetricCalls(r)) <= 1
        /\ pc[r] \in {"http", "done"} => Len(MetricCalls(r)) = 1
        /\ \A i \in 1..Len(MetricCalls(r)) :
              handled[r].kind = "return" => MetricCalls(r)[i].sample.success

\* A request whose handler returned has been answered after the sink
\* refused its one, success-flagged sample.
C13_Witness ==
    \E r \in Workers :
        /\ pc[r] = "done"
        /\ handled[r].kind = "return"
        /\ Count(r, {"HANDLER_CALL"}) = 1
        /\ MetricCalls(r) # <<>>
        /\ MetricCalls(r)[1].sample.success
        /\ ~MetricCalls(r)[1].delivered
        /\ response[r].status = 200

\* C14: the status code of a request's Metric Sample is the status code
\* of the HTTP response the client gets, also when the view function
\* raises and Flask makes the response.
C14_SampleStatusIsHttpStatus ==
    \A r \in Workers :
        pc[r] = "done"
        => \A i \in 1..Len(MetricCalls(r)) :
              MetricCalls(r)[i].sample.status_code = response[r].status

====
